---- MODULE Spec2Model ----
(***************************************************************************)
(* Model of the task coordinator (apps/core/task/coretask.py: CoreTask and *)
(* the accepting wrapper) and of the session layer                         *)
(* (golem/network/transport/session.py: BasicSession, BasicSafeSession).   *)
(* Spec        : the coordinator driven by its public operations.          *)
(* SpecSession : one BasicSafeSession driven by interpret/send/disconnect. *)
(***************************************************************************)
EXTENDS Integers, Sequences, FiniteSets, TLC

(* ----------------------------- bounds ---------------------------------- *)
MaxPending == 2      \* max_pending_client_results is drawn from 1..MaxPending
MaxTotal == 2        \* total_tasks is drawn from 0..MaxTotal
MaxSteps == 4        \* number of coordinator operations in a run

Workers == {"w1", "w2"}

(* --------------------------- program constants ------------------------- *)
MAX_PENDING_CLIENT_RESULTS == 1

VerStates == {"VERIFIED", "NOT_VERIFIED", "UNKNOWN"}
ResultTypes == {"files", "other"}

VARIABLES
  total_tasks, last_task, num_tasks_received, num_failed_subtasks,
  subtasks_given, counting_nodes, max_pending_client_results,
  stdout, stderr, results,
  steps,             \* number of operations performed so far
  verified_ids,      \* history: ids for which verify() returned VERIFIED
  last               \* observation: the last operation and what it did

taskvars == <<total_tasks, last_task, num_tasks_received, num_failed_subtasks,
              subtasks_given, counting_nodes, max_pending_client_results,
              stdout, stderr, results, steps, verified_ids, last>>

VARIABLES
  opened,             \* conn.opened
  pending,            \* self in conn.server.pending_sessions
  producer,           \* conn.producer is set
  disconnect_sent,    \* _disconnect_sent
  verified,
  unverified_cnt,
  can_be_unverified,
  can_be_not_encrypted,
  closed,             \* conn.close() has been called
  notices,            \* history: notices of disconnect handed to the transport
  refused,            \* history: non-allowlisted sends made while unverified
  ssteps,
  slast               \* observation: the last session operation

sessvars == <<opened, pending, producer, disconnect_sent, verified,
              unverified_cnt, can_be_unverified, can_be_not_encrypted,
              closed, notices, refused, ssteps, slast>>

\* The arguments of a direct call of interpret_task_results.
VARIABLES
  in_results,         \* task_results: the list of paths
  in_type,            \* result_type
  in_ok               \* whether relocating the i-th file succeeds

inputvars == <<in_results, in_type, in_ok>>

\* The integration playbook (NodeTestPlaybook).
VARIABLES
  current_step,
  reconnect_attempts_left,
  reconnect_countdown,   \* <<>> for None, <<n>> for the number n
  started,
  nodes_started,
  exit_code,             \* <<>> for None, <<n>> for the number n
  provider_cfg,       \* config.current_provider: none, without or with opts
  requestor_cfg,      \* config.current_requestor
  plast               \* observation: the last run of the loop

playvars == <<current_step, reconnect_attempts_left, reconnect_countdown,
              started, nodes_started, exit_code, provider_cfg, requestor_cfg,
              plast>>

\* The scenario of a task of four work units: one subtask per unit, each
\* handed out and reported once.
ScenarioTotal == 4
ScenarioSteps == 2 * ScenarioTotal

\* The ids in the order they are handed out; a task of the scenario has a
\* fourth one.
SubtaskIds == IF total_tasks = ScenarioTotal THEN <<"s1", "s2", "s3", "s4">>
              ELSE <<"s1", "s2", "s3">>
IdSet == {SubtaskIds[i] : i \in 1..Len(SubtaskIds)}

StepBudget == IF total_tasks = ScenarioTotal THEN ScenarioSteps ELSE MaxSteps

(* ------------------------------ strings -------------------------------- *)
\* A path is the sequence of its characters.
LOG_EXT == <<".", "l", "o", "g">>
ERR_LOG_EXT == <<"e", "r", "r", ".", "l", "o", "g">>
TMP_DIR == <<"t">>

endswith(s, suf) ==
  /\ Len(s) >= Len(suf)
  /\ SubSeq(s, Len(s) - Len(suf) + 1, Len(s)) = suf

RECURSIVE rfind_slash(_, _)
rfind_slash(p, i) ==
  IF i = 0 THEN 0 ELSE IF p[i] = "/" THEN i ELSE rfind_slash(p, i - 1)

RECURSIVE rstrip_slash(_)
rstrip_slash(p) ==
  IF p # <<>> /\ p[Len(p)] = "/" THEN rstrip_slash(SubSeq(p, 1, Len(p) - 1))
  ELSE p

dirname(p) ==
  LET i == rfind_slash(p, Len(p))
      head == SubSeq(p, 1, i)
  IN IF rstrip_slash(head) = <<>> THEN head ELSE rstrip_slash(head)

basename(p) == SubSeq(p, rfind_slash(p, Len(p)) + 1, Len(p))

path_join(a, b) ==
  IF b # <<>> /\ b[1] = "/" THEN b
  ELSE IF a = <<>> \/ a[Len(a)] = "/" THEN a \o b
  ELSE a \o <<"/">> \o b

outer_dir_path(p) == path_join(dirname(dirname(p)), basename(p))

\* Characters in code-point order, for list.sort() on paths.
Alphabet == <<".", "/", "1", "2", "3", "4", "a", "b", "c", "e", "g", "l", "o",
              "r", "s", "t", "u">>
Ord(c) == CHOOSE i \in 1..Len(Alphabet) : Alphabet[i] = c

RECURSIVE str_less(_, _)
str_less(a, b) ==
  IF b = <<>> THEN FALSE
  ELSE IF a = <<>> THEN TRUE
  ELSE IF a[1] = b[1] THEN str_less(Tail(a), Tail(b))
  ELSE Ord(a[1]) < Ord(b[1])

RECURSIVE insert_sorted(_, _)
insert_sorted(x, l) ==
  IF l = <<>> THEN <<x>>
  ELSE IF str_less(x, l[1]) THEN <<x>> \o l
  ELSE <<l[1]>> \o insert_sorted(x, Tail(l))

RECURSIVE sort(_)
sort(l) == IF l = <<>> THEN <<>> ELSE insert_sorted(l[1], sort(Tail(l)))

IdChars(sid) == IF sid = "s1" THEN <<"1">>
                ELSE IF sid = "s2" THEN <<"2">>
                ELSE IF sid = "s3" THEN <<"3">> ELSE <<"4">>

(* --------------------------- SubtaskStatus ----------------------------- *)
is_computed(status) == status \in {"starting", "downloading"}

(* -------------------------- the coordinator ---------------------------- *)
\* The mutable attributes of a CoreTask gathered in one record, so that the
\* methods can be composed as the code composes them.
Task == [subtasks_given |-> subtasks_given,
         counting_nodes |-> counting_nodes,
         num_failed_subtasks |-> num_failed_subtasks,
         num_tasks_received |-> num_tasks_received,
         last_task |-> last_task,
         stdout |-> stdout, stderr |-> stderr, results |-> results]

Known(t, sid) == sid \in DOMAIN t.subtasks_given

NewClient == [started |-> 0, finishing |-> 0, rejected |-> 0]

\* TaskClient.assert_exists: the record is created on first contact.
assert_exists(nodes, w) ==
  IF w \in DOMAIN nodes THEN nodes
  ELSE [x \in DOMAIN nodes \cup {w} |-> IF x = w THEN NewClient ELSE nodes[x]]

get_progress(t) ==
  IF total_tasks = 0 THEN [num |-> 0, den |-> 1]
  ELSE [num |-> t.num_tasks_received, den |-> total_tasks]

needs_computation(t) ==
  (t.last_task # total_tasks) \/ (t.num_failed_subtasks > 0)

finished_computation(t) == t.num_tasks_received = total_tasks

\* slip: the failed subtasks waiting for a retry are left out
get_tasks_left_unassigned(t) == total_tasks - t.last_task

get_tasks_left(t) == (total_tasks - t.last_task) + t.num_failed_subtasks

\* slip: the failed counter is incremented before the subtask is looked up
mark_subtask_failed_count_first(t, sid) ==
  LET t0 == [t EXCEPT !.num_failed_subtasks = @ + 1]
  IN IF ~Known(t, sid) THEN t0
     ELSE LET t1 == [t0 EXCEPT !.subtasks_given[sid].status = "failure"]
              w == t.subtasks_given[sid].node_id
          IN IF w \notin DOMAIN t.counting_nodes THEN t1
             ELSE [t1 EXCEPT !.counting_nodes[w].rejected = @ + 1]

\* slip: the worker's reject count is set from the failed counter of the task
mark_subtask_failed_shared_count(t, sid) ==
  IF ~Known(t, sid) THEN t
  ELSE LET t1 == [t EXCEPT !.subtasks_given[sid].status = "failure"]
           w == t.subtasks_given[sid].node_id
       IN IF w \notin DOMAIN t.counting_nodes THEN t1
          ELSE [t1 EXCEPT
                  !.counting_nodes[w].rejected = t.num_failed_subtasks + 1,
                  !.num_failed_subtasks = @ + 1]

\* @handle_key_error: a KeyError leaves whatever was assigned before it.
mark_subtask_failed(t, sid) ==
  IF ~Known(t, sid) THEN t
  ELSE LET t1 == [t EXCEPT !.subtasks_given[sid].status = "failure"]
           w == t.subtasks_given[sid].node_id
       IN IF w \notin DOMAIN t.counting_nodes THEN t1
          ELSE [t1 EXCEPT !.counting_nodes[w].rejected = @ + 1,
                          !.num_failed_subtasks = @ + 1]

\* slip: only the lookup is made, the status is not tested
should_accept_known(t, sid) == Known(t, sid)

should_accept(t, sid) ==
  IF ~Known(t, sid) THEN FALSE
  ELSE is_computed(t.subtasks_given[sid].status)

verify_subtask(t, sid) ==
  IF ~Known(t, sid) THEN FALSE
  ELSE t.subtasks_given[sid].status = "finished"

result_incoming(t, sid) ==
  IF ~Known(t, sid) THEN t
  ELSE LET w == t.subtasks_given[sid].node_id
       IN IF w \notin DOMAIN t.counting_nodes THEN t
          ELSE [t EXCEPT !.counting_nodes[w].finishing = @ + 1,
                         !.subtasks_given[sid].status = "downloading"]

\* slip: the accepted work units of a finished subtask are not taken back
restart_subtask_no_undo(t, sid) ==
  IF ~Known(t, sid) THEN t
  ELSE
    LET info == t.subtasks_given[sid]
        was_failure_before == info.status \in {"failure", "resent"}
        t1 == IF is_computed(info.status) \/ info.status = "finished"
              THEN mark_subtask_failed(t, sid)
              ELSE t
    IN IF ~was_failure_before
       THEN [t1 EXCEPT !.subtasks_given[sid].status = "restarted"]
       ELSE t1

\* slip: the status is set to restarted whatever it was before
restart_subtask_always_restarted(t, sid) ==
  IF ~Known(t, sid) THEN t
  ELSE
    LET info == t.subtasks_given[sid]
        t1 == IF is_computed(info.status) THEN mark_subtask_failed(t, sid)
              ELSE IF info.status = "finished"
              THEN LET tf == mark_subtask_failed(t, sid)
                       tasks == info.end_task - info.start_task + 1
                   IN [tf EXCEPT !.num_tasks_received = @ - tasks]
              ELSE t
    IN [t1 EXCEPT !.subtasks_given[sid].status = "restarted"]

\* slip: every subtask not in failure or resent is marked failed
restart_subtask_remark(t, sid) ==
  IF ~Known(t, sid) THEN t
  ELSE
    LET info == t.subtasks_given[sid]
        was_failure_before == info.status \in {"failure", "resent"}
        t1 == IF info.status = "finished"
              THEN LET tf == mark_subtask_failed(t, sid)
                       tasks == info.end_task - info.start_task + 1
                   IN [tf EXCEPT !.num_tasks_received = @ - tasks]
              ELSE IF ~was_failure_before THEN mark_subtask_failed(t, sid)
              ELSE t
    IN IF ~was_failure_before
       THEN [t1 EXCEPT !.subtasks_given[sid].status = "restarted"]
       ELSE t1

\* slip: the restart of a finished subtask does not reject its worker
restart_subtask_spare_worker(t, sid) ==
  IF ~Known(t, sid) THEN t
  ELSE
    LET info == t.subtasks_given[sid]
        was_failure_before == info.status \in {"failure", "resent"}
        t1 == IF is_computed(info.status) THEN mark_subtask_failed(t, sid)
              ELSE IF info.status = "finished"
              THEN LET tasks == info.end_task - info.start_task + 1
                   IN [t EXCEPT !.num_failed_subtasks = @ + 1,
                                !.num_tasks_received = @ - tasks]
              ELSE t
    IN IF ~was_failure_before
       THEN [t1 EXCEPT !.subtasks_given[sid].status = "restarted"]
       ELSE t1

restart_subtask(t, sid) ==
  IF ~Known(t, sid) THEN t
  ELSE
    LET info == t.subtasks_given[sid]
        was_failure_before == info.status \in {"failure", "resent"}
        t1 == IF is_computed(info.status) THEN mark_subtask_failed(t, sid)
              ELSE IF info.status = "finished"
              THEN LET tf == mark_subtask_failed(t, sid)
                       tasks == info.end_task - info.start_task + 1
                   IN [tf EXCEPT !.num_tasks_received = @ - tasks]
              ELSE t
    IN IF ~was_failure_before
       THEN [t1 EXCEPT !.subtasks_given[sid].status = "restarted"]
       ELSE t1

RECURSIVE restart_from(_, _)
restart_from(t, i) ==
  IF i > Len(SubtaskIds) THEN t
  ELSE restart_from(restart_subtask(t, SubtaskIds[i]), i + 1)

\* slip: only the subtasks still being computed are restarted
RECURSIVE restart_computed_from(_, _)
restart_computed_from(t, i) ==
  IF i > Len(SubtaskIds) THEN t
  ELSE LET sid == SubtaskIds[i]
           t1 == IF Known(t, sid) /\ is_computed(t.subtasks_given[sid].status)
                 THEN restart_subtask(t, sid) ELSE t
       IN restart_computed_from(t1, i + 1)

restart_computed_only(t) == restart_computed_from(t, 1)

\* restart(): restart_subtask over list(subtasks_given.keys()); ids are handed
\* out in the order of SubtaskIds, unknown ids are skipped.
restart(t) == restart_from(t, 1)

(* ----------------------- result interpretation ------------------------- *)
\* _unpack_task_result writes tr[0] under output_dir and returns that path.
unpack_task_result(name, output_dir) == path_join(output_dir, name)

\* load_task_results: the list of files, and the stderr text it records.
load_task_results(task_result, result_type, sid) ==
  IF result_type = "data"
  THEN [files |-> [i \in 1..Len(task_result) |->
                     unpack_task_result(task_result[i],
                                        path_join(TMP_DIR, IdChars(sid)))],
        err |-> FALSE]
  ELSE IF result_type = "files" THEN [files |-> task_result, err |-> FALSE]
  ELSE [files |-> <<>>, err |-> TRUE]

NOT_SUPPORTED == <<"[">>   \* "[GOLEM] Task result {} not supported"

\* One pass of the loop of filter_task_results over task_results[i..];
\* io_ok[i] tells whether relocating the i-th file succeeds.
\* acc = [out, so, se]: the filtered list and the stdout / stderr slots.
RECURSIVE filter_from(_, _, _, _)
filter_from(task_results, io_ok, i, acc) ==
  IF i > Len(task_results) THEN acc
  ELSE
    LET tr == task_results[i]
        new_tr == outer_dir_path(tr)
        acc1 ==
          IF endswith(tr, ERR_LOG_EXT) THEN [acc EXCEPT !.se = tr]
          ELSE IF endswith(tr, LOG_EXT) THEN [acc EXCEPT !.so = tr]
          \* new_tr = tr: the file is removed (or missing) and rename raises
          ELSE IF new_tr # tr /\ io_ok[i]
               THEN [acc EXCEPT !.out = Append(@, new_tr)]
          ELSE acc
    IN filter_from(task_results, io_ok, i + 1, acc1)

\* slip: the two slots are cleared after the results are loaded
interpret_task_results_clear_late(t, sid, task_result, result_type, io_ok) ==
  LET ld == load_task_results(task_result, result_type, sid)
      f == filter_from(ld.files, io_ok, 1,
                       [out |-> <<>>, so |-> <<>>, se |-> <<>>])
      put(d, v) == [x \in DOMAIN d \cup {sid} |-> IF x = sid THEN v ELSE d[x]]
  IN [t EXCEPT !.stdout = put(@, f.so),
               !.stderr = put(@, f.se),
               !.results = put(@, sort(f.out))]

\* slip: one failed relocation ends the filtering with no result at all
interpret_task_results_abort(t, sid, task_result, result_type, io_ok) ==
  LET ld == load_task_results(task_result, result_type, sid)
      se0 == IF ld.err THEN NOT_SUPPORTED ELSE <<>>
      f == filter_from(ld.files, io_ok, 1,
                       [out |-> <<>>, so |-> <<>>, se |-> se0])
      failed == \E i \in DOMAIN ld.files :
                  /\ ~endswith(ld.files[i], LOG_EXT)
                  /\ ~io_ok[i]
      put(d, v) == [x \in DOMAIN d \cup {sid} |-> IF x = sid THEN v ELSE d[x]]
  IN [t EXCEPT !.stdout = put(@, f.so),
               !.stderr = put(@, f.se),
               !.results = put(@, IF failed THEN <<>> ELSE sort(f.out))]

interpret_task_results(t, sid, task_result, result_type, io_ok) ==
  LET ld == load_task_results(task_result, result_type, sid)
      se0 == IF ld.err THEN NOT_SUPPORTED ELSE <<>>
      f == filter_from(ld.files, io_ok, 1,
                       [out |-> <<>>, so |-> <<>>, se |-> se0])
      put(d, v) == [x \in DOMAIN d \cup {sid} |-> IF x = sid THEN v ELSE d[x]]
  IN [t EXCEPT !.stdout = put(@, f.so),
               !.stderr = put(@, f.se),
               !.results = put(@, sort(f.out))]

(* ------------------------- admission control --------------------------- *)
\* slip: the pending-results test is made before the rejected test
accept_client_wait_first(nodes, w) ==
  LET nodes1 == assert_exists(nodes, w)
      client == nodes1[w]
      finishing == client.finishing
      max_finishing == max_pending_client_results
  IN IF finishing >= max_finishing
        \/ client.started - finishing >= max_finishing
     THEN [nodes |-> nodes1, verdict |-> "SHOULD_WAIT"]
     ELSE IF client.rejected > 0
     THEN [nodes |-> nodes1, verdict |-> "REJECTED"]
     ELSE [nodes |-> [nodes1 EXCEPT ![w].started = @ + 1],
           verdict |-> "ACCEPTED"]

\* slip: > instead of >= in the pending-results test
accept_client_strict(nodes, w) ==
  LET nodes1 == assert_exists(nodes, w)
      client == nodes1[w]
      finishing == client.finishing
      max_finishing == max_pending_client_results
  IN IF client.rejected > 0
     THEN [nodes |-> nodes1, verdict |-> "REJECTED"]
     ELSE IF finishing > max_finishing
             \/ client.started - finishing > max_finishing
     THEN [nodes |-> nodes1, verdict |-> "SHOULD_WAIT"]
     ELSE [nodes |-> [nodes1 EXCEPT ![w].started = @ + 1],
           verdict |-> "ACCEPTED"]

\* slip: client.start() is called before the verdict is known
accept_client_start_first(nodes, w) ==
  LET nodes0 == assert_exists(nodes, w)
      nodes1 == [nodes0 EXCEPT ![w].started = @ + 1]
      client == nodes0[w]
      finishing == client.finishing
      max_finishing == max_pending_client_results
  IN IF client.rejected > 0
     THEN [nodes |-> nodes1, verdict |-> "REJECTED"]
     ELSE IF finishing >= max_finishing
             \/ client.started - finishing >= max_finishing
     THEN [nodes |-> nodes1, verdict |-> "SHOULD_WAIT"]
     ELSE [nodes |-> nodes1, verdict |-> "ACCEPTED"]

\* _accept_client: the tracker after the call and the verdict.
accept_client(nodes, w) ==
  LET nodes1 == assert_exists(nodes, w)
      client == nodes1[w]
      finishing == client.finishing
      max_finishing == max_pending_client_results
  IN IF client.rejected > 0
     THEN [nodes |-> nodes1, verdict |-> "REJECTED"]
     ELSE IF finishing >= max_finishing
             \/ client.started - finishing >= max_finishing
     THEN [nodes |-> nodes1, verdict |-> "SHOULD_WAIT"]
     ELSE [nodes |-> [nodes1 EXCEPT ![w].started = @ + 1],
           verdict |-> "ACCEPTED"]

\* `self.get_progress == 1.0` in accepting_qed compares the bound method
\* with a float (the call parentheses are missing): never equal.
wrapper_progress_check(t) == FALSE

\* accept_results sets the status; the task classes built on CoreTask also
\* count the accepted work units in num_tasks_received.
accept_results(t, sid) == [t EXCEPT !.subtasks_given[sid].status = "finished"]

count_accepted_units(t, sid) ==
  LET info == t.subtasks_given[sid]
  IN [t EXCEPT !.num_tasks_received = @ + (info.end_task - info.start_task + 1)]

computation_failed(t, sid) == mark_subtask_failed(t, sid)

\* slip: a failed verification sets the status without the failure funnel
computation_finished_quiet(t, sid, task_result, result_type, io_ok, ver_state) ==
  IF ~should_accept(t, sid) THEN [t |-> t, verify |-> FALSE]
  ELSE LET t1 == interpret_task_results(t, sid, task_result, result_type,
                                        io_ok)
       IN IF ver_state = "VERIFIED"
          THEN [t |-> count_accepted_units(accept_results(t1, sid), sid),
                verify |-> TRUE]
          ELSE [t |-> [t1 EXCEPT !.subtasks_given[sid].status = "failure"],
                verify |-> TRUE]

\* slip: every outcome but NOT_VERIFIED is taken for a success
computation_finished_lax(t, sid, task_result, result_type, io_ok, ver_state) ==
  IF ~should_accept(t, sid) THEN [t |-> t, verify |-> FALSE]
  ELSE LET t1 == interpret_task_results(t, sid, task_result, result_type,
                                        io_ok)
       IN IF ver_state # "NOT_VERIFIED"
          THEN [t |-> count_accepted_units(accept_results(t1, sid), sid),
                verify |-> TRUE]
          ELSE [t |-> mark_subtask_failed(t1, sid), verify |-> TRUE]

\* computation_finished: the task after the call, and whether the
\* verificator was invoked.
computation_finished(t, sid, task_result, result_type, io_ok, ver_state) ==
  IF ~should_accept(t, sid) THEN [t |-> t, verify |-> FALSE]
  ELSE LET t1 == interpret_task_results(t, sid, task_result, result_type,
                                        io_ok)
       IN IF ver_state = "VERIFIED"
          THEN [t |-> count_accepted_units(accept_results(t1, sid), sid),
                verify |-> TRUE]
          ELSE [t |-> computation_failed(t1, sid), verify |-> TRUE]

(* ----------------------------- KeyError -------------------------------- *)
\* HandleKeyError(log_key_error) around a method: a KeyError raised in the
\* method is caught, log_key_error logs the warning and its False is returned.
handle_key_error(raised) == FALSE

SubtaskOps == {"computation_finished", "computation_failed", "result_incoming",
               "restart_subtask", "verify_subtask", "should_accept"}

\* Whether the call op(sid) ends with a KeyError reaching the caller.  Every
\* lookup subtasks_given[subtask_id] is made in a decorated method:
\* computation_failed makes it in _mark_subtask_failed, computation_finished
\* in should_accept, whose False ends the call before any other lookup.
key_error_escapes(op, t, sid) ==
  CASE op \in {"result_incoming", "restart_subtask", "verify_subtask",
               "should_accept"} -> handle_key_error(~Known(t, sid))
    [] op = "computation_failed" -> handle_key_error(~Known(t, sid))
    [] op = "computation_finished" -> handle_key_error(~Known(t, sid))

(* --------------------------- observation ------------------------------- *)
None == "none"
NoOp == [op |-> "init", id |-> None, verdict |-> None, wrapped |-> FALSE,
         verify |-> FALSE, should_wait |-> FALSE, handed |-> None]

Store(t) ==
  /\ steps < StepBudget
  /\ steps' = steps + 1
  /\ subtasks_given' = t.subtasks_given
  /\ counting_nodes' = t.counting_nodes
  /\ num_failed_subtasks' = t.num_failed_subtasks
  /\ num_tasks_received' = t.num_tasks_received
  /\ last_task' = t.last_task
  /\ stdout' = t.stdout
  /\ stderr' = t.stderr
  /\ results' = t.results
  /\ UNCHANGED <<total_tasks, max_pending_client_results>>
  /\ UNCHANGED sessvars
  /\ UNCHANGED playvars
  /\ UNCHANGED inputvars

(* ------------------- inputs of computation_finished -------------------- *)
A_LOG == <<"a", ".", "l", "o", "g">>
A_ERR_LOG == <<"a", ".", "e", "r", "r", ".", "l", "o", "g">>
S_B_OUT == <<"t", "/", "s", "/", "b", ".", "o", "u", "t">>

TaskResults == {<<A_LOG, A_ERR_LOG, S_B_OUT>>}

\* Whether relocating the files succeeds: for all of them or for none.
IoChoices(tr) == {[i \in 1..Len(tr) |-> b] : b \in BOOLEAN}

(* ------------------------------ actions -------------------------------- *)
TaskInit ==
  /\ total_tasks \in 0..MaxTotal
  /\ max_pending_client_results \in 1..MaxPending
  /\ last_task = 0
  /\ num_tasks_received = 0
  /\ num_failed_subtasks = 0
  /\ subtasks_given = <<>>
  /\ counting_nodes = <<>>
  /\ stdout = <<>>
  /\ stderr = <<>>
  /\ results = <<>>
  /\ steps = 0
  /\ verified_ids = {}
  /\ last = NoOp

ComputationFailed(sid) ==
  /\ Store(computation_failed(Task, sid))
  /\ last' = [NoOp EXCEPT !.op = "computation_failed", !.id = sid]
  /\ UNCHANGED verified_ids

\* ver_state is what verificator.verify returns when it is called.
ComputationFinished(sid, task_result, result_type, io_ok, ver_state) ==
  LET r == computation_finished(Task, sid, task_result, result_type, io_ok,
                                ver_state)
  IN /\ Store(r.t)
     /\ verified_ids' = IF r.verify /\ ver_state = "VERIFIED"
                        THEN verified_ids \cup {sid} ELSE verified_ids
     /\ last' = [NoOp EXCEPT !.op = "computation_finished", !.id = sid,
                             !.verify = r.verify,
                             !.verdict = IF r.verify THEN ver_state ELSE None]

ResultIncoming(sid) ==
  /\ Store(result_incoming(Task, sid))
  /\ last' = [NoOp EXCEPT !.op = "result_incoming", !.id = sid]
  /\ UNCHANGED verified_ids

RestartSubtask(sid) ==
  /\ Store(restart_subtask(Task, sid))
  /\ last' = [NoOp EXCEPT !.op = "restart_subtask", !.id = sid]
  /\ UNCHANGED verified_ids

Restart ==
  /\ Store(restart(Task))
  /\ last' = [NoOp EXCEPT !.op = "restart"]
  /\ UNCHANGED verified_ids

\* The first id of SubtaskIds not yet handed out (None when all are used).
FreshId(t) ==
  IF \A i \in 1..Len(SubtaskIds) : Known(t, SubtaskIds[i]) THEN None
  ELSE SubtaskIds[CHOOSE i \in 1..Len(SubtaskIds) :
                    /\ ~Known(t, SubtaskIds[i])
                    /\ \A j \in 1..(i - 1) : Known(t, SubtaskIds[j])]

AddSubtask(t, sid, w, first, final) ==
  [t EXCEPT !.subtasks_given =
     [x \in DOMAIN @ \cup {sid} |->
        IF x = sid THEN [status |-> "starting", node_id |-> w,
                         start_task |-> first, end_task |-> final]
        ELSE @[x]]]

\* The wrapped query_extra_data of a task class: hands out the next range of
\* work units, or the range of a failed / restarted subtask again (that one
\* becomes resent), or nothing.  `pick` is the subtask sent again or None,
\* `span` the number of units of a new range.
query_extra_data_func(t, w, pick, span) ==
  LET sid == FreshId(t)
  IN IF sid = None THEN [t |-> t, handed |-> None]
     ELSE IF pick # None
     THEN LET old == t.subtasks_given[pick]
              t1 == [t EXCEPT !.subtasks_given[pick].status = "resent",
                              !.num_failed_subtasks = @ - 1]
          IN [t |-> AddSubtask(t1, sid, w, old.start_task, old.end_task),
              handed |-> sid]
     ELSE IF t.last_task + span <= total_tasks
     THEN [t |-> [AddSubtask(t, sid, w, t.last_task + 1, t.last_task + span)
                    EXCEPT !.last_task = @ + span],
           handed |-> sid]
     ELSE [t |-> t, handed |-> None]

Resendable(t) ==
  {s \in DOMAIN t.subtasks_given :
     /\ t.subtasks_given[s].status \in {"failure", "restarted"}
     /\ t.num_failed_subtasks > 0}

\* slip: the verdict is computed but the wrapped function runs anyway
accepting_qed_no_gate(t, w, pick, span) ==
  LET r == accept_client(t.counting_nodes, w)
      t0 == [t EXCEPT !.counting_nodes = r.nodes]
      q == query_extra_data_func(t0, w, pick, span)
  IN [t |-> q.t, verdict |-> r.verdict, wrapped |-> TRUE,
      should_wait |-> FALSE, handed |-> q.handed]

\* accepting_qed, the decorator around query_extra_data: the task after the
\* call, the verdict, whether the wrapped function ran, the should_wait of
\* the returned ExtraData and the subtask handed out.
accepting_qed(t, w, pick, span) ==
  LET r == accept_client(t.counting_nodes, w)
      t0 == [t EXCEPT !.counting_nodes = r.nodes]
  IN IF r.verdict # "ACCEPTED"
     THEN [t |-> t0, verdict |-> r.verdict, wrapped |-> FALSE,
           should_wait |-> (r.verdict = "SHOULD_WAIT"), handed |-> None]
     ELSE IF wrapper_progress_check(t0)
     THEN [t |-> t0, verdict |-> r.verdict, wrapped |-> FALSE,
           should_wait |-> FALSE, handed |-> None]
     ELSE LET q == query_extra_data_func(t0, w, pick, span)
          IN [t |-> q.t, verdict |-> r.verdict, wrapped |-> TRUE,
              should_wait |-> FALSE, handed |-> q.handed]

Accepting(w, pick, span) ==
  \* workers make their first contact in the order w1, w2
  /\ w = "w2" => "w1" \in DOMAIN counting_nodes
  /\ LET r == accepting_qed(Task, w, pick, span)
     IN /\ Store(r.t)
        /\ last' = [NoOp EXCEPT !.op = "accepting", !.id = w,
                                !.verdict = r.verdict, !.wrapped = r.wrapped,
                                !.should_wait = r.should_wait,
                                !.handed = r.handed]
        /\ UNCHANGED verified_ids

(* ============================ the session ============================== *)
UNVERIFIED_CNT == 2     \* golem.core.variables.UNVERIFIED_CNT
MaxSessSteps == 5       \* number of session operations in a run

MsgTypes == {"Disconnect", "Hello", "Task", "Unknown"}
NotAMessage == "NotAMessage"          \* None, or an object that is no Message
Reasons == {"BadProtocol", "Unverified", "Request"}

\* _interpretation: Disconnect is registered by BasicSession.__init__, Hello
\* and Task stand for the handlers a session class adds; Unknown has none.
Registered == {"Disconnect", "Hello", "Task"}

\* The session attributes in one record; handed / discs / dispatched / drops
\* collect what one operation does: the messages given to conn.send_message,
\* the reasons passed to disconnect, the handler run, the calls of dropped;
\* pclosed counts the calls of conn.producer.close().
Sess == [opened |-> opened, pending |-> pending, producer |-> producer,
         disconnect_sent |-> disconnect_sent, verified |-> verified,
         unverified_cnt |-> unverified_cnt, closed |-> closed,
         handed |-> <<>>, discs |-> <<>>, dispatched |-> None, drops |-> 0,
         pclosed |-> 0]

dropped(s) == [s EXCEPT !.closed = TRUE, !.pending = FALSE, !.drops = @ + 1]

\* slip: a failed send is tried once more before the session is dropped
basic_send_retry(s, msg, ok) ==
  LET s1 == [s EXCEPT !.handed = Append(@, msg)]
  IN IF ~ok THEN dropped([s1 EXCEPT !.handed = Append(@, msg)]) ELSE s1

\* BasicSession.send; ok is what conn.send_message returns.
basic_send(s, msg, ok) ==
  LET s1 == [s EXCEPT !.handed = Append(@, msg)]
  IN IF ~ok THEN dropped(s1) ELSE s1

\* slip: the allowlist test is inverted
can_send_inverted(s, msg, send_unverified) ==
  s.verified \/ send_unverified \/ msg \notin can_be_unverified

can_send(s, msg, send_unverified) ==
  s.verified \/ send_unverified \/ msg \in can_be_unverified

RECURSIVE safe_send(_, _, _, _)
RECURSIVE disconnect(_, _, _)

\* slip: the notice is sent whether or not one has been sent before
send_disconnect_again(s, reason, ok) ==
  safe_send([s EXCEPT !.disconnect_sent = TRUE], "Disconnect", FALSE, ok)

send_disconnect(s, reason, ok) ==
  IF ~s.disconnect_sent
  THEN safe_send([s EXCEPT !.disconnect_sent = TRUE], "Disconnect", FALSE, ok)
  ELSE s

disconnect(s, reason, ok) ==
  LET s1 == [s EXCEPT !.discs = Append(@, reason)]
  IN IF s1.opened THEN dropped(send_disconnect(s1, reason, ok)) ELSE s1

\* slip: < instead of <= in the test of the budget
safe_send_late(s, msg, send_unverified, ok) ==
  IF ~can_send(s, msg, send_unverified)
  THEN LET s1 == [s EXCEPT !.unverified_cnt = @ - 1]
       IN IF s1.unverified_cnt < 0 THEN disconnect(s1, "Unverified", ok)
          ELSE s1
  ELSE basic_send(s, msg, ok)

\* BasicSafeSession.send
safe_send(s, msg, send_unverified, ok) ==
  IF ~can_send(s, msg, send_unverified)
  THEN LET s1 == [s EXCEPT !.unverified_cnt = @ - 1]
       IN IF s1.unverified_cnt <= 0 THEN disconnect(s1, "Unverified", ok)
          ELSE s1
  ELSE basic_send(s, msg, ok)

\* slip: the test of msg.encrypted is missing
check_msg_no_encrypted(s, msg, encrypted, ok) ==
  IF msg = NotAMessage
  THEN [s |-> disconnect(s, "BadProtocol", ok), ok |-> FALSE]
  ELSE IF ~s.verified /\ msg \notin can_be_unverified
  THEN [s |-> disconnect(s, "Unverified", ok), ok |-> FALSE]
  ELSE [s |-> s, ok |-> TRUE]

\* slip: the test of msg.encrypted is made before the test of verified
check_msg_encrypted_first(s, msg, encrypted, ok) ==
  IF msg = NotAMessage
  THEN [s |-> disconnect(s, "BadProtocol", ok), ok |-> FALSE]
  ELSE IF ~encrypted /\ msg \notin can_be_not_encrypted
  THEN [s |-> disconnect(s, "BadProtocol", ok), ok |-> FALSE]
  ELSE IF ~s.verified /\ msg \notin can_be_unverified
  THEN [s |-> disconnect(s, "Unverified", ok), ok |-> FALSE]
  ELSE [s |-> s, ok |-> TRUE]

\* BasicSession._check_msg then BasicSafeSession._check_msg
check_msg(s, msg, encrypted, ok) ==
  IF msg = NotAMessage
  THEN [s |-> disconnect(s, "BadProtocol", ok), ok |-> FALSE]
  ELSE IF ~s.verified /\ msg \notin can_be_unverified
  THEN [s |-> disconnect(s, "Unverified", ok), ok |-> FALSE]
  ELSE IF ~encrypted /\ msg \notin can_be_not_encrypted
  THEN [s |-> disconnect(s, "BadProtocol", ok), ok |-> FALSE]
  ELSE [s |-> s, ok |-> TRUE]

\* The handler of a message type: _react_to_disconnect drops the session,
\* the handlers of a session class are left abstract.
action(s, msg) ==
  LET s1 == [s EXCEPT !.dispatched = msg]
  IN IF msg = "Disconnect" THEN dropped(s1) ELSE s1

\* slip: a message without a handler is ignored
interpret_ignore_unknown(s, msg, encrypted, ok) ==
  LET c == check_msg(s, msg, encrypted, ok)
  IN IF ~c.ok THEN c.s
     ELSE IF msg \in Registered THEN action(c.s, msg)
     ELSE c.s

interpret(s, msg, encrypted, ok) ==
  LET c == check_msg(s, msg, encrypted, ok)
  IN IF ~c.ok THEN c.s
     ELSE IF msg \in Registered THEN action(c.s, msg)
     ELSE disconnect(c.s, "BadProtocol", ok)

\* slip: the end of a transfer is handled like its failure
data_sent_drop(s) ==
  IF s.producer THEN dropped([s EXCEPT !.producer = FALSE, !.pclosed = @ + 1])
  ELSE s

data_sent(s) ==
  IF s.producer THEN [s EXCEPT !.producer = FALSE, !.pclosed = @ + 1] ELSE s

production_failed(s) == dropped(s)

SNoOp == [op |-> "init", msg |-> None, encrypted |-> FALSE, su |-> FALSE,
          was_verified |-> FALSE, was_opened |-> FALSE, cnt_before |-> 0,
          handed |-> <<>>, discs |-> <<>>, dispatched |-> None, drops |-> 0,
          pclosed |-> 0]

\* The Disconnect messages among those an operation handed to the transport,
\* but for the one the caller of send passed itself.
Notices(handed, op, msg) ==
  Cardinality({i \in DOMAIN handed : handed[i] = "Disconnect"})
    - (IF op = "send" /\ msg = "Disconnect" THEN 1 ELSE 0)

SStore(s, op, msg, encrypted, su) ==
  /\ ssteps < MaxSessSteps
  /\ ssteps' = ssteps + 1
  /\ opened' = s.opened
  /\ pending' = s.pending
  /\ producer' = s.producer
  /\ disconnect_sent' = s.disconnect_sent
  /\ verified' = s.verified
  /\ unverified_cnt' = s.unverified_cnt
  /\ closed' = s.closed
  /\ notices' = notices + Notices(s.handed, op, msg)
  /\ refused' = IF op = "send" /\ ~verified /\ ~su
                    /\ msg \notin can_be_unverified
                 THEN refused + 1 ELSE refused
  /\ slast' = [op |-> op, msg |-> msg, encrypted |-> encrypted, su |-> su,
               was_verified |-> verified, was_opened |-> opened,
               cnt_before |-> unverified_cnt,
               handed |-> s.handed, discs |-> s.discs,
               dispatched |-> s.dispatched, drops |-> s.drops,
               pclosed |-> s.pclosed]
  /\ UNCHANGED <<can_be_unverified, can_be_not_encrypted>>
  /\ UNCHANGED taskvars
  /\ UNCHANGED inputvars
  /\ UNCHANGED playvars

\* After BasicSafeSession.__init__; a session class may extend the two
\* allowlists with its handshake message.
SessInit ==
  /\ opened = TRUE
  /\ pending = TRUE
  /\ producer = FALSE
  /\ disconnect_sent = FALSE
  /\ verified = FALSE
  /\ unverified_cnt = UNVERIFIED_CNT
  /\ can_be_unverified \in {{"Disconnect"}, {"Disconnect", "Hello"}}
  /\ can_be_not_encrypted \in {{"Disconnect"}, {"Disconnect", "Hello"}}
  /\ closed = FALSE
  /\ notices = 0
  /\ refused = 0
  /\ ssteps = 0
  /\ slast = SNoOp

Interpret(msg, encrypted, ok) ==
  SStore(interpret(Sess, msg, encrypted, ok), "interpret", msg, encrypted,
         FALSE)

Send(msg, send_unverified, ok) ==
  SStore(safe_send(Sess, msg, send_unverified, ok), "send", msg, FALSE,
         send_unverified)

Disconnect(reason, ok) ==
  SStore(disconnect(Sess, reason, ok), "disconnect", reason, FALSE, FALSE)

Dropped == SStore(dropped(Sess), "dropped", None, FALSE, FALSE)

DataSent == SStore(data_sent(Sess), "data_sent", None, FALSE, FALSE)

ProductionFailed ==
  SStore(production_failed(Sess), "production_failed", None, FALSE, FALSE)

\* The handshake of a session class completes.
SetVerified ==
  /\ ~verified
  /\ SStore([Sess EXCEPT !.verified = TRUE], "verified", None, FALSE, FALSE)

\* A bulk transfer starts: the connection gets a producer.
SetProducer ==
  /\ ~producer
  /\ SStore([Sess EXCEPT !.producer = TRUE], "producer", None, FALSE, FALSE)

\* The transport goes down (peer closed, or the close() asked for is done).
ConnectionLost ==
  /\ opened
  /\ SStore([Sess EXCEPT !.opened = FALSE], "connection_lost", None, FALSE,
            FALSE)

(* ============================ the playbook ============================= *)
reconnect_attempts_initial == 7     \* class attribute reconnect_attempts_left
reconnect_countdown_initial == 10

\* The steps of the playbook by index (initial_steps + the task steps).
playbook_steps ==
  <<"step_get_provider_key", "step_get_requestor_key",
    "step_configure_provider", "step_configure_requestor",
    "step_get_provider_network_info", "step_ensure_requestor_network",
    "step_connect_nodes", "step_verify_peer_connection",
    "step_wait_provider_gnt", "step_wait_requestor_gnt",
    "step_get_known_tasks", "step_create_task", "step_get_task_id",
    "step_get_task_status", "step_wait_task_finished", "step_verify_output",
    "step_get_subtasks", "step_verify_provider_income">>

\* current_step_method: steps[current_step], None past the end.
current_step_name(p) ==
  IF p.current_step + 1 \in DOMAIN playbook_steps
  THEN playbook_steps[p.current_step + 1] ELSE None

Play == [current_step |-> current_step,
         reconnect_attempts_left |-> reconnect_attempts_left,
         reconnect_countdown |-> reconnect_countdown,
         started |-> started, nodes_started |-> nodes_started,
         exit_code |-> exit_code]

stop_nodes(p) ==
  IF p.nodes_started THEN [p EXCEPT !.nodes_started = FALSE] ELSE p

stop(p, code) ==
  IF ~p.started THEN p
  ELSE [stop_nodes([p EXCEPT !.started = FALSE]) EXCEPT !.exit_code = <<code>>]

fail(p) == stop(p, 1)

next(p) == [p EXCEPT !.current_step = @ + 1]

\* The assert raises before the assignment when current_step is 0.
previous(p) ==
  IF p.current_step > 0 THEN [p EXCEPT !.current_step = @ - 1] ELSE p

\* What a call over RPC ends with: on_success with a result, on_error, or
\* no callback at all (the reactor was stopped before the answer).
RpcAnswers == {"success", "waiting", "error", "lost"}

\* call_provider / call_requestor fail when the node has no config.
step_get_provider_key(p, rpc) ==
  IF provider_cfg = None THEN fail(p)
  ELSE IF rpc = "success" THEN next(p) ELSE p

step_get_requestor_key(p, rpc) ==
  IF requestor_cfg = None THEN fail(p)
  ELSE IF rpc = "success" THEN next(p) ELSE p

step_configure_provider(p, rpc) ==
  IF provider_cfg = None THEN fail(p)
  ELSE IF provider_cfg # "opts" THEN next(p)
  ELSE IF rpc = "success" THEN next(p)
  ELSE IF rpc = "error" THEN fail(p)
  ELSE p

\* The options of the requestor are sent with call_provider.
step_configure_requestor(p, rpc) ==
  IF requestor_cfg = None THEN fail(p)
  ELSE IF requestor_cfg # "opts" THEN next(p)
  ELSE IF provider_cfg = None THEN fail(p)
  ELSE IF rpc = "success" THEN next(p)
  ELSE IF rpc = "error" THEN fail(p)
  ELSE p

\* success: the node is listening and reports its ports.
step_get_provider_network_info(p, rpc) ==
  IF provider_cfg = None THEN fail(p)
  ELSE IF rpc = "success" THEN next(p) ELSE p

step_ensure_requestor_network(p, rpc) ==
  IF requestor_cfg = None THEN fail(p)
  ELSE IF rpc = "success" THEN next(p) ELSE p

step_connect_nodes(p, rpc) ==
  IF requestor_cfg = None THEN fail(p)
  ELSE IF rpc = "success"
  THEN next([p EXCEPT
               !.reconnect_countdown = <<reconnect_countdown_initial>>])
  ELSE p

\* slip: a retry does not use up an attempt
step_verify_peer_connection_unbounded(p, peers) ==
  IF requestor_cfg = None THEN fail(p)
  ELSE IF peers = "many" \/ peers = "other" THEN fail(p)
  ELSE IF peers = "provider" THEN next(p)
  ELSE IF peers = "none" /\ p.reconnect_countdown # <<>>
  THEN IF p.reconnect_countdown[1] <= 0
       THEN IF p.reconnect_attempts_left > 0 THEN previous(p) ELSE fail(p)
       ELSE [p EXCEPT !.reconnect_countdown = <<@[1] - 1>>]
  ELSE p

\* peers is what net.peers.connected answers: none, the provider, another
\* peer (other), more than one (many), or the call fails.
\* reconnect_countdown is None until step_connect_nodes has succeeded; the
\* comparison with None raises in the callback and nothing is assigned.
step_verify_peer_connection(p, peers) ==
  IF requestor_cfg = None THEN fail(p)
  ELSE IF peers = "many" \/ peers = "other" THEN fail(p)
  ELSE IF peers = "provider" THEN next(p)
  ELSE IF peers = "none" /\ p.reconnect_countdown # <<>>
  THEN IF p.reconnect_countdown[1] <= 0
       THEN IF p.reconnect_attempts_left > 0
            THEN previous([p EXCEPT !.reconnect_attempts_left = @ - 1])
            ELSE fail(p)
       ELSE [p EXCEPT !.reconnect_countdown = <<@[1] - 1>>]
  ELSE p

\* The call of the current step method in run(); `answer` is what the call
\* the step makes ends with.
current_step_method(p, answer) ==
  CASE current_step_name(p) = "step_get_provider_key" ->
         step_get_provider_key(p, answer)
    [] current_step_name(p) = "step_get_requestor_key" ->
         step_get_requestor_key(p, answer)
    [] current_step_name(p) = "step_configure_provider" ->
         step_configure_provider(p, answer)
    [] current_step_name(p) = "step_configure_requestor" ->
         step_configure_requestor(p, answer)
    [] current_step_name(p) = "step_get_provider_network_info" ->
         step_get_provider_network_info(p, answer)
    [] current_step_name(p) = "step_ensure_requestor_network" ->
         step_ensure_requestor_network(p, answer)
    [] current_step_name(p) = "step_connect_nodes" ->
         step_connect_nodes(p, answer)
    [] current_step_name(p) = "step_verify_peer_connection" ->
         step_verify_peer_connection(p, answer)

\* run(): a node that has exited makes the run fail, and the step method is
\* called all the same; its call over RPC then gets no answer.
run(p, exited, answer) ==
  IF p.nodes_started /\ exited
  THEN current_step_method(fail(p), "lost")
  ELSE current_step_method(p, answer)

PNoOp == [op |-> "init", step |-> None, exited |-> FALSE, answer |-> None]

\* The class attributes of a playbook that is not started.
PlayIdle ==
  /\ current_step = 0
  /\ reconnect_attempts_left = reconnect_attempts_initial
  /\ reconnect_countdown = <<>>
  /\ started = FALSE
  /\ nodes_started = FALSE
  /\ exit_code = <<>>
  /\ provider_cfg = "plain"
  /\ requestor_cfg = "plain"
  /\ plast = PNoOp

\* After start(): __init__ has started the nodes, the loop calls run().
PlayInit ==
  /\ current_step = 0
  /\ reconnect_attempts_left = reconnect_attempts_initial
  /\ reconnect_countdown = <<>>
  /\ started = TRUE
  /\ nodes_started = TRUE
  /\ exit_code = <<>>
  /\ provider_cfg \in {None, "plain", "opts"}
  /\ requestor_cfg \in {None, "plain", "opts"}
  /\ plast = PNoOp

\* One call of run() by the LoopingCall, which runs while the reactor does.
Run(exited, answer) ==
  /\ started
  /\ LET p == run(Play, exited, answer)
     IN /\ current_step' = p.current_step
        /\ reconnect_attempts_left' = p.reconnect_attempts_left
        /\ reconnect_countdown' = p.reconnect_countdown
        /\ started' = p.started
        /\ nodes_started' = p.nodes_started
        /\ exit_code' = p.exit_code
  /\ plast' = [op |-> "run", step |-> current_step, exited |-> exited,
               answer |-> answer]
  /\ UNCHANGED <<provider_cfg, requestor_cfg>>
  /\ UNCHANGED <<taskvars, sessvars, inputvars>>

(* ========================== specifications ============================= *)
vars == <<taskvars, sessvars, inputvars, playvars>>

\* No direct call of interpret_task_results is made.
InputsIdle ==
  /\ in_results = <<>>
  /\ in_type = "files"
  /\ in_ok = <<>>

\* The component a specification does not drive stays as constructed.
TaskIdle ==
  /\ TaskInit
  /\ total_tasks = 0
  /\ max_pending_client_results = MAX_PENDING_CLIENT_RESULTS

SessIdle ==
  /\ SessInit
  /\ can_be_unverified = {"Disconnect"}
  /\ can_be_not_encrypted = {"Disconnect"}

Init == TaskInit /\ SessIdle /\ InputsIdle /\ PlayIdle

Next ==
  \/ \E sid \in IdSet : ComputationFailed(sid)
  \/ \E sid \in IdSet, tr \in TaskResults, rt \in ResultTypes,
        ver \in VerStates :
        \E io_ok \in IoChoices(tr) :
          \* the inputs play no part in a call that is not accepted, and
          \* io_ok none when no file is loaded: one choice stands for all
          /\ (~should_accept(Task, sid) \/ rt = "other")
               => io_ok = [i \in 1..Len(tr) |-> TRUE]
          /\ ~should_accept(Task, sid) => (rt = "files" /\ ver = "VERIFIED")
          /\ ComputationFinished(sid, tr, rt, io_ok, ver)
  \/ \E sid \in IdSet : ResultIncoming(sid)
  \/ \E sid \in IdSet : RestartSubtask(sid)
  \/ Restart
  \/ \E w \in Workers, span \in 1..2 :
        \E pick \in Resendable(Task) \cup {None} :
          \* span is used for a new range only
          /\ pick # None => span = 1
          /\ Accepting(w, pick, span)

Spec == Init /\ [][Next]_vars

InitSession == SessInit /\ TaskIdle /\ InputsIdle /\ PlayIdle

NextSession ==
  \/ \E msg \in MsgTypes \cup {NotAMessage}, e \in BOOLEAN, ok \in BOOLEAN :
        Interpret(msg, e, ok)
  \/ \E msg \in MsgTypes, su \in BOOLEAN, ok \in BOOLEAN : Send(msg, su, ok)
  \/ \E r \in Reasons, ok \in BOOLEAN : Disconnect(r, ok)
  \/ Dropped
  \/ DataSent
  \/ ProductionFailed
  \/ SetVerified
  \/ SetProducer
  \/ ConnectionLost

SpecSession == InitSession /\ [][NextSession]_vars

\* The scenario: a task of ScenarioTotal work units handed out one unit at a
\* time (or a failed one again), every result loaded from files that relocate.
InitScenario ==
  /\ total_tasks = ScenarioTotal
  /\ max_pending_client_results \in 1..MaxPending
  /\ last_task = 0
  /\ num_tasks_received = 0
  /\ num_failed_subtasks = 0
  /\ subtasks_given = <<>>
  /\ counting_nodes = <<>>
  /\ stdout = <<>>
  /\ stderr = <<>>
  /\ results = <<>>
  /\ steps = 0
  /\ verified_ids = {}
  /\ last = NoOp
  /\ SessIdle
  /\ InputsIdle
  /\ PlayIdle

NextScenario ==
  \/ \E w \in Workers : \E pick \in Resendable(Task) \cup {None} :
        Accepting(w, pick, 1)
  \/ \E sid \in IdSet, tr \in TaskResults,
        ver \in {"VERIFIED", "NOT_VERIFIED"} :
        ComputationFinished(sid, tr, "files", [i \in 1..Len(tr) |-> TRUE], ver)
  \/ \E sid \in IdSet : ComputationFailed(sid)

SpecScenario == InitScenario /\ [][NextScenario]_vars

\* Direct calls of interpret_task_results on lists of up to MaxLen paths.
MaxLen == 3

B_OUT == <<"b", ".", "o", "u", "t">>
S_A_OUT == <<"t", "/", "s", "/", "a", ".", "o", "u", "t">>

Paths == {A_LOG, A_ERR_LOG, B_OUT, S_B_OUT, S_A_OUT}

PathLists == UNION {[1..n -> Paths] : n \in 0..MaxLen}

InitResults ==
  /\ TaskIdle
  /\ SessIdle
  /\ PlayIdle
  /\ in_results \in PathLists
  /\ in_type \in ResultTypes
  /\ in_ok \in [1..Len(in_results) -> BOOLEAN]

InterpretTaskResults(sid) ==
  /\ Store(interpret_task_results(Task, sid, in_results, in_type, in_ok))
  /\ last' = [NoOp EXCEPT !.op = "interpret_task_results", !.id = sid]
  /\ UNCHANGED verified_ids

NextResults ==
  \/ \E sid \in IdSet : steps = 0 /\ InterpretTaskResults(sid)
  \/ steps > 0 /\ InterpretTaskResults(last.id)

SpecResults == InitResults /\ [][NextResults]_vars

\* The playbook run against a requestor that keeps reporting no connected
\* peer: net.peer.connect succeeds whenever it is answered and
\* net.peers.connected answers with the empty list; the earlier steps get
\* any answer, and a node may exit at any time.
InitPlaybook == PlayInit /\ TaskIdle /\ SessIdle /\ InputsIdle

NextPlaybook ==
  \/ \E answer \in RpcAnswers \ {"lost"} :
        /\ current_step_name(Play) \notin {"step_connect_nodes",
                                            "step_verify_peer_connection"}
        /\ Run(FALSE, answer)
  \/ /\ current_step_name(Play) = "step_connect_nodes"
     /\ Run(FALSE, "success")
  \/ /\ current_step_name(Play) = "step_verify_peer_connection"
     /\ Run(FALSE, "none")
  \/ Run(TRUE, "lost")

\* The LoopingCall calls run() every INTERVAL seconds until the reactor is
\* stopped.
SpecPlaybook == InitPlaybook /\ [][NextPlaybook]_vars /\ WF_vars(NextPlaybook)

(* ============================== claims ================================= *)
Range(f) == {f[i] : i \in DOMAIN f}

\* The tracker counter `c` of worker w before it has a record is 0.
Counter(w, c) == IF w \in DOMAIN counting_nodes THEN counting_nodes[w][c]
                 ELSE 0

\* The step is a call of the accepting wrapper (hence of _accept_client)
\* for worker w.
AcceptCall(w) == last'.op = "accepting" /\ last'.id = w

\* Subtasks held by w whose result has not been verified yet.
Unconfirmed(w) ==
  Cardinality({sid \in DOMAIN subtasks_given :
                 /\ subtasks_given[sid].node_id = w
                 /\ subtasks_given[sid].status \in {"starting", "downloading"}})

\* C1: a subtask has status finished only if an earlier computation_finished
\* call for that subtask id obtained VERIFIED from the verificator.
C1_FinishedOnlyIfVerified ==
  \A sid \in DOMAIN subtasks_given :
    subtasks_given[sid].status = "finished" => sid \in verified_ids

C1_Witness ==
  /\ last.op = "computation_finished"
  /\ last.id \in DOMAIN subtasks_given
  /\ subtasks_given[last.id].status = "finished"

\* C2: interpret runs a handler for a message whose type is not allowlisted
\* only if the session is verified (type not in can_be_unverified) and the
\* message is encrypted (type not in can_be_not_encrypted); otherwise no
\* handler runs.
C2_HandlerOnlyIfVerifiedAndEncrypted ==
  (slast.op = "interpret" /\ slast.dispatched # None) =>
    /\ slast.dispatched = slast.msg
    /\ slast.msg \notin can_be_unverified => slast.was_verified
    /\ slast.msg \notin can_be_not_encrypted => slast.encrypted

C2_Witness ==
  /\ slast.op = "interpret"
  /\ slast.dispatched = "Task"
  /\ "Task" \notin can_be_unverified \cup can_be_not_encrypted
  /\ slast.was_verified
  /\ slast.encrypted

\* The last operation was a send of a non-allowlisted message on an
\* unverified session without send_unverified.
RefusedSend ==
  /\ slast.op = "send"
  /\ ~slast.was_verified
  /\ ~slast.su
  /\ slast.msg \notin can_be_unverified

\* C3: a send on an unverified session without send_unverified of a type
\* that is not in can_be_unverified hands no such message to the transport:
\* whatever conn.send_message gets during the call is of an allowlisted type.
C3_NoUnverifiedSend ==
  RefusedSend => \A i \in DOMAIN slast.handed :
                   slast.handed[i] \in can_be_unverified

C3_Witness == RefusedSend /\ slast.handed = <<"Disconnect">>

\* C4: a refused send decrements unverified_cnt by exactly one, a send let
\* through leaves it unchanged, and send calls disconnect(Unverified) when the
\* counter has reached zero: on the UNVERIFIED_CNT-th refused send, not before.
C4_UnverifiedBudget ==
  /\ unverified_cnt = UNVERIFIED_CNT - refused
  /\ slast.op = "send" =>
       /\ unverified_cnt = slast.cnt_before - (IF RefusedSend THEN 1 ELSE 0)
       /\ ("Unverified" \in Range(slast.discs))
            <=> (RefusedSend /\ refused >= UNVERIFIED_CNT)

C4_Witness ==
  /\ RefusedSend
  /\ refused = UNVERIFIED_CNT
  /\ unverified_cnt = 0
  /\ slast.discs = <<"Unverified">>

\* C5: once a worker's reject count is non-zero it stays non-zero and every
\* later _accept_client call for that worker returns REJECTED.
C5_RejectedIsSticky ==
  [][\A w \in DOMAIN counting_nodes :
       counting_nodes[w].rejected > 0 =>
         /\ w \in DOMAIN counting_nodes'
         /\ counting_nodes'[w].rejected > 0
         /\ AcceptCall(w) => last'.verdict = "REJECTED"]_vars

C5_Witness ==
  /\ last.op = "accepting"
  /\ last.verdict = "REJECTED"
  /\ counting_nodes[last.id].started = 1
  /\ counting_nodes[last.id].finishing = 1

\* The test of _accept_client on the counters of a worker never rejected.
PendingFull(w) ==
  \/ Counter(w, "finishing") >= max_pending_client_results
  \/ Counter(w, "started") - Counter(w, "finishing")
       >= max_pending_client_results

\* C6 as stated: for a worker never rejected, _accept_client returns
\* SHOULD_WAIT whenever finishing >= max or started - finishing >= max, and
\* after max accepted attempts whose results have not been confirmed the next
\* call returns SHOULD_WAIT.
C6_Original ==
  [][\A w \in Workers :
       (AcceptCall(w) /\ Counter(w, "rejected") = 0) =>
         /\ PendingFull(w) => last'.verdict = "SHOULD_WAIT"
         /\ Unconfirmed(w) >= max_pending_client_results
              => last'.verdict = "SHOULD_WAIT"]_vars

\* C6 amended: for a worker never rejected, _accept_client returns
\* SHOULD_WAIT whenever finishing >= max or started - finishing >= max; hence
\* after max accepted attempts and before any result of the worker has come
\* in the next call returns SHOULD_WAIT, and with the default of 1 a request
\* made while a subtask of the worker is outstanding is told to wait.
C6_Amended ==
  [][\A w \in Workers :
       (AcceptCall(w) /\ Counter(w, "rejected") = 0) =>
         /\ PendingFull(w) => last'.verdict = "SHOULD_WAIT"
         /\ (Counter(w, "started") >= max_pending_client_results
              /\ Counter(w, "finishing") = 0)
              => last'.verdict = "SHOULD_WAIT"
         /\ (max_pending_client_results = MAX_PENDING_CLIENT_RESULTS
              /\ Unconfirmed(w) >= 1)
              => last'.verdict = "SHOULD_WAIT"]_vars

C6_Witness ==
  /\ last.op = "accepting"
  /\ last.verdict = "SHOULD_WAIT"
  /\ max_pending_client_results = 2
  /\ counting_nodes[last.id] = [started |-> 2, finishing |-> 0,
                                rejected |-> 0]

\* C7: _accept_client adds one to the worker's started count when it returns
\* ACCEPTED and leaves the worker's three counts alone otherwise; a worker not
\* seen before gets a fresh record, no record is deleted and no other
\* worker's record changes.
C7_AcceptClientFrame ==
  [][/\ DOMAIN counting_nodes \subseteq DOMAIN counting_nodes'
     /\ \A w \in Workers :
          AcceptCall(w) =>
            /\ DOMAIN counting_nodes' = DOMAIN counting_nodes \cup {w}
            /\ counting_nodes'[w] =
                 [started |-> Counter(w, "started")
                              + (IF last'.verdict = "ACCEPTED" THEN 1 ELSE 0),
                  finishing |-> Counter(w, "finishing"),
                  rejected |-> Counter(w, "rejected")]
            /\ \A x \in DOMAIN counting_nodes \ {w} :
                 counting_nodes'[x] = counting_nodes[x]]_vars

C7_Witness ==
  /\ last.op = "accepting"
  /\ last.verdict = "SHOULD_WAIT"
  /\ DOMAIN counting_nodes = Workers
  /\ \A w \in Workers : counting_nodes[w].started = 1

\* C8: when the verdict is not ACCEPTED the accepting wrapper does not call
\* the wrapped function: no subtask record is created, no task counter
\* changes, and should_wait of the returned signal is true for SHOULD_WAIT and
\* false for REJECTED.
C8_NoWorkUnlessAccepted ==
  [][(last'.op = "accepting" /\ last'.verdict # "ACCEPTED") =>
       /\ ~last'.wrapped
       /\ last'.handed = None
       /\ last'.should_wait = (last'.verdict = "SHOULD_WAIT")
       /\ UNCHANGED <<subtasks_given, total_tasks, last_task,
                      num_tasks_received, num_failed_subtasks>>]_vars

C8_Witness ==
  /\ last.op = "accepting"
  /\ last.verdict = "REJECTED"
  /\ ~last.should_wait
  /\ last_task < total_tasks

\* C9: when the progress of the task is 1.0 a request through the accepting
\* wrapper does not reach the wrapped function and hands out no subtask.
C9_CompleteTaskHandsOutNothing ==
  [][(last'.op = "accepting"
      /\ total_tasks # 0 /\ num_tasks_received = total_tasks) =>
       /\ ~last'.wrapped
       /\ last'.handed = None]_vars

\* C10: computation_finished for an unknown id, or for a subtask that is not
\* starting or downloading, changes nothing (statuses, task counters, tracker
\* counters, results, stdout, stderr) and does not call the verificator.
C10_NotAcceptedChangesNothing ==
  [][(/\ last'.op = "computation_finished"
      /\ \/ last'.id \notin DOMAIN subtasks_given
         \/ subtasks_given[last'.id].status
              \notin {"starting", "downloading"}) =>
       /\ ~last'.verify
       /\ UNCHANGED <<subtasks_given, counting_nodes, total_tasks, last_task,
                      num_tasks_received, num_failed_subtasks,
                      stdout, stderr, results>>]_vars

C10_Witness ==
  /\ last.op = "computation_finished"
  /\ ~last.verify
  /\ last.id \in DOMAIN subtasks_given
  /\ subtasks_given[last.id].status = "finished"
  /\ last.id \in DOMAIN results

\* What the claims on failure and restart compare: the statuses and ranges
\* of the subtasks, the two task counters and the tracker.
Counters(t) == <<t.subtasks_given, t.num_failed_subtasks,
                 t.num_tasks_received, t.counting_nodes>>

InFlight == {sid \in DOMAIN subtasks_given :
               subtasks_given[sid].status \in {"starting", "downloading"}}

\* C11: computation_finished on an in-flight subtask whose verification
\* outcome is not VERIFIED leaves statuses, num_failed_subtasks,
\* num_tasks_received and the tracker as computation_failed on that subtask
\* does: status failure, failed counter +1, the worker rejected once more.
C11_FailedVerificationIsFailure ==
  \A sid \in InFlight, ver \in VerStates \ {"VERIFIED"}, tr \in TaskResults,
     rt \in ResultTypes :
    \A io_ok \in IoChoices(tr) :
      LET r == computation_finished(Task, sid, tr, rt, io_ok, ver)
          w == subtasks_given[sid].node_id
      IN /\ r.verify
         /\ Counters(r.t) = Counters(computation_failed(Task, sid))
         /\ r.t.subtasks_given[sid].status = "failure"
         /\ r.t.num_failed_subtasks = num_failed_subtasks + 1
         /\ r.t.num_tasks_received = num_tasks_received
         /\ r.t.counting_nodes[w].rejected = counting_nodes[w].rejected + 1

C11_Witness ==
  /\ last.op = "computation_finished"
  /\ last.verdict = "UNKNOWN"
  /\ subtasks_given[last.id].status = "failure"
  /\ num_failed_subtasks = 1
  /\ counting_nodes[subtasks_given[last.id].node_id].rejected = 1

\* The step is a failure report for a known subtask: computation_failed, or
\* computation_finished with the verificator called.
FailureReport ==
  /\ last'.id \in DOMAIN subtasks_given
  /\ \/ last'.op = "computation_failed"
     \/ last'.op = "computation_finished" /\ last'.verify

\* C12: a failure report adds one to num_failed_subtasks and to the reject
\* count of the assigned worker when the subtask enters failure with it, and
\* adds nothing when the subtask is in failure already (a second
\* computation_failed, a failure report after a failed verification).
C12_FailureCountedOnce ==
  [][FailureReport =>
       LET sid == last'.id
           w == subtasks_given[sid].node_id
           enters == /\ subtasks_given[sid].status # "failure"
                     /\ subtasks_given'[sid].status = "failure"
           by == IF enters THEN 1 ELSE 0
       IN /\ num_failed_subtasks' = num_failed_subtasks + by
          /\ counting_nodes'[w].rejected = counting_nodes[w].rejected + by]_vars

\* C13: each of computation_finished, computation_failed, result_incoming,
\* restart_subtask, verify_subtask and should_accept, called with an id that
\* is not in subtasks_given, raises no exception and leaves the statuses, the
\* task counters, the tracker and the result bookkeeping as they were (the
\* two queries answer False, the verificator is not called).
C13_UnknownIdIsNoOp ==
  \A sid \in IdSet \ DOMAIN subtasks_given :
    /\ computation_failed(Task, sid) = Task
    /\ result_incoming(Task, sid) = Task
    /\ restart_subtask(Task, sid) = Task
    /\ \A tr \in TaskResults, rt \in ResultTypes, ver \in VerStates :
         \A io_ok \in IoChoices(tr) :
           computation_finished(Task, sid, tr, rt, io_ok, ver)
             = [t |-> Task, verify |-> FALSE]
    /\ ~verify_subtask(Task, sid)
    /\ ~should_accept(Task, sid)
    /\ \A op \in SubtaskOps : ~key_error_escapes(op, Task, sid)

C13_Witness ==
  /\ last.op = "result_incoming"
  /\ last.id \notin DOMAIN subtasks_given
  /\ \E sid \in DOMAIN subtasks_given :
       /\ subtasks_given[sid].status = "starting"
       /\ counting_nodes[subtasks_given[sid].node_id].finishing = 0

\* C14: restart_subtask is idempotent: for a subtask in any status, calling
\* it twice in succession leaves the coordinator as calling it once does; on
\* a subtask in failure or restarted it does not increment
\* num_failed_subtasks.
C14_RestartSubtaskIdempotent ==
  \A sid \in DOMAIN subtasks_given :
    LET once == restart_subtask(Task, sid)
        twice == restart_subtask(once, sid)
    IN /\ twice = once
       /\ subtasks_given[sid].status \in {"failure", "restarted"}
            => once.num_failed_subtasks = num_failed_subtasks

C14_Witness ==
  /\ last.op = "restart_subtask"
  /\ last.id \in DOMAIN subtasks_given
  /\ subtasks_given[last.id].status = "restarted"
  /\ num_failed_subtasks = 1
  /\ steps = 3
  /\ DOMAIN subtasks_given = {"s1"}

\* The number of work units a subtask covers.
Units(sid) == subtasks_given[sid].end_task - subtasks_given[sid].start_task + 1

\* C15: restart_subtask on a finished subtask adds one to
\* num_failed_subtasks and to the reject count of its worker, takes
\* end_task - start_task + 1 from num_tasks_received and ends with status
\* restarted; on a starting or downloading subtask it does the same but
\* leaves num_tasks_received unchanged.
C15_RestartOfComputedOrFinished ==
  \A sid \in DOMAIN subtasks_given :
    LET st == subtasks_given[sid].status
        w == subtasks_given[sid].node_id
        r == restart_subtask(Task, sid)
    IN st \in {"finished", "starting", "downloading"} =>
         /\ r.subtasks_given =
              [subtasks_given EXCEPT ![sid].status = "restarted"]
         /\ r.num_failed_subtasks = num_failed_subtasks + 1
         /\ r.counting_nodes =
              [counting_nodes EXCEPT ![w].rejected = @ + 1]
         /\ r.num_tasks_received =
              IF st = "finished" THEN num_tasks_received - Units(sid)
              ELSE num_tasks_received

C15_Witness ==
  /\ last.op = "restart_subtask"
  /\ last.id \in verified_ids
  /\ subtasks_given[last.id].status = "restarted"
  /\ Units(last.id) = 2
  /\ num_tasks_received = 0
  /\ num_failed_subtasks = 1

\* C16 as stated: restart_subtask on a subtask in failure or resent sets its
\* status to restarted and leaves num_failed_subtasks, num_tasks_received
\* and the tracker unchanged.
C16_Original ==
  \A sid \in DOMAIN subtasks_given :
    subtasks_given[sid].status \in {"failure", "resent"} =>
      LET r == restart_subtask(Task, sid)
      IN /\ r.subtasks_given[sid].status = "restarted"
         /\ r.num_failed_subtasks = num_failed_subtasks
         /\ r.num_tasks_received = num_tasks_received
         /\ r.counting_nodes = counting_nodes

\* C16 amended: restart_subtask on a subtask in failure or resent leaves its
\* status as it is (failure stays failure, resent stays resent) and leaves
\* num_failed_subtasks, num_tasks_received and the tracker unchanged.
C16_Amended ==
  \A sid \in DOMAIN subtasks_given :
    subtasks_given[sid].status \in {"failure", "resent"} =>
      LET r == restart_subtask(Task, sid)
      IN /\ r.subtasks_given = subtasks_given
         /\ r.num_failed_subtasks = num_failed_subtasks
         /\ r.num_tasks_received = num_tasks_received
         /\ r.counting_nodes = counting_nodes

C16_Witness ==
  /\ last.op = "restart_subtask"
  /\ last.id \in DOMAIN subtasks_given
  /\ subtasks_given[last.id].status = "resent"
  /\ num_failed_subtasks = 0

\* The orders in which the ids of S can be visited once each.
Orders(S) ==
  {f \in [1..Cardinality(S) -> S] :
     \A i, j \in 1..Cardinality(S) : i # j => f[i] # f[j]}

RECURSIVE restart_each(_, _, _)
restart_each(t, order, i) ==
  IF i > Len(order) THEN t
  ELSE restart_each(restart_subtask(t, order[i]), order, i + 1)

\* C17: after restart() no known subtask is starting, downloading or
\* finished (each is restarted, failure or resent), and the state is the one
\* reached by applying restart_subtask once to each known id, in any order.
C17_RestartAll ==
  LET r == restart(Task)
  IN /\ DOMAIN r.subtasks_given = DOMAIN subtasks_given
     /\ \A sid \in DOMAIN subtasks_given :
          r.subtasks_given[sid].status \in {"restarted", "failure", "resent"}
     /\ \A order \in Orders(DOMAIN subtasks_given) :
          restart_each(Task, order, 1) = r

C17_Witness ==
  /\ last.op = "restart"
  /\ Cardinality(DOMAIN subtasks_given) = 2
  /\ \A sid \in DOMAIN subtasks_given :
       subtasks_given[sid].status = "restarted"
  /\ num_failed_subtasks = 2
  /\ num_tasks_received = 0
  /\ verified_ids # {}

\* C18: every change of a subtask's status is a documented transition:
\* downloading is entered only from starting, by result_incoming; finished
\* only from downloading, by a verified result; failure only from starting
\* or downloading or in a restart; restarted only by restart_subtask (or
\* restart); so result_incoming does not move a finished, failure or
\* restarted subtask back to downloading.
C18_DocumentedTransitions ==
  [][\A sid \in DOMAIN subtasks_given :
       LET old == subtasks_given[sid].status
           new == subtasks_given'[sid].status
       IN new # old =>
            /\ new = "downloading" =>
                 old = "starting" /\ last'.op = "result_incoming"
            /\ new = "finished" =>
                 old = "downloading" /\ last'.op = "computation_finished"
            /\ new = "failure" =>
                 \/ old \in {"starting", "downloading"}
                 \/ last'.op \in {"restart_subtask", "restart"}
            /\ new = "restarted" =>
                 last'.op \in {"restart_subtask", "restart"}
            /\ new = "resent" => last'.op = "accepting"
            /\ new # "starting"]_vars

\* C19: in every reachable state 0 <= num_tasks_received <= total_tasks, so
\* get_progress() is num_tasks_received / total_tasks and lies in [0, 1],
\* also after restart_subtask of finished subtasks and after repeated result
\* deliveries for one subtask.
C19_ReceivedWithinTotal ==
  LET p == get_progress(Task)
  IN /\ 0 <= num_tasks_received
     /\ num_tasks_received <= total_tasks
     /\ total_tasks # 0 =>
          p = [num |-> num_tasks_received, den |-> total_tasks]
     /\ 0 <= p.num
     /\ p.num <= p.den

\* C20: get_progress() is 1.0 exactly when finished_computation() is true,
\* for every value of the counters, a task with total_tasks = 0 included.
C20_ProgressOneIffFinished ==
  LET p == get_progress(Task)
  IN (p.num = p.den) <=> finished_computation(Task)

\* The number of known subtasks in status st.
InStatus(st) ==
  Cardinality({sid \in DOMAIN subtasks_given :
                 subtasks_given[sid].status = st})

\* A task of four work units with three subtasks finished and one in failure.
ThreeFinishedOneFailed ==
  /\ total_tasks = ScenarioTotal
  /\ InStatus("finished") = 3
  /\ InStatus("failure") = 1

RECURSIVE TotalRejected(_)
TotalRejected(ws) ==
  IF ws = {} THEN 0
  ELSE LET w == CHOOSE x \in ws : TRUE
       IN counting_nodes[w].rejected + TotalRejected(ws \ {w})

InterpretedUnhandled ==
  /\ slast.op = "interpret"
  /\ slast.msg \in MsgTypes \ Registered

\* C22 as stated: interpret of a message whose type has no registered
\* handler makes exactly one disconnect, with reason BadProtocol, after which
\* the session is not in pending_sessions.
C22_Original ==
  InterpretedUnhandled =>
    /\ slast.discs = <<"BadProtocol">>
    /\ ~pending

\* C22 amended: interpret of a message whose type has no registered handler
\* makes exactly one disconnect, no handler runs; the reason is Unverified
\* when the session is unverified and the type is not in can_be_unverified,
\* and BadProtocol otherwise; with the transport open the connection is then
\* closed and the session is not in pending_sessions.
C22_Amended ==
  InterpretedUnhandled =>
    /\ slast.dispatched = None
    /\ slast.discs =
         IF ~slast.was_verified /\ slast.msg \notin can_be_unverified
         THEN <<"Unverified">> ELSE <<"BadProtocol">>
    /\ slast.was_opened => (closed /\ ~pending)

C22_Witness ==
  /\ InterpretedUnhandled
  /\ slast.was_verified
  /\ slast.encrypted
  /\ slast.was_opened
  /\ slast.discs = <<"BadProtocol">>
  /\ slast.handed = <<"Disconnect">>
  /\ ~pending

\* C23: after disconnect(reason) returns the session is torn down
\* (connection closed, session not in pending_sessions) whether or not the
\* transport was open at the call; only the notice depends on it being open.
C23_DisconnectTearsDown ==
  slast.op = "disconnect" =>
    /\ closed
    /\ ~pending
    /\ slast.handed # <<>> => slast.was_opened

\* C24: over any sequence of disconnect, send and interpret calls at most
\* one notice of disconnect is handed to the transport, and an unverified
\* session sends it too: once disconnect has been called with the transport
\* open, verified or not, the notice has been handed over exactly once.
C24_OneDisconnectNotice ==
  /\ notices <= 1
  /\ disconnect_sent <=> notices = 1
  /\ (slast.discs # <<>> /\ slast.was_opened) => notices = 1

C24_Witness ==
  /\ slast.op = "disconnect"
  /\ ~slast.was_verified
  /\ slast.was_opened
  /\ slast.handed = <<>>
  /\ closed
  /\ notices = 1

\* C25: when the transport reports that a send failed, send drops the
\* session (connection closed, session not in pending_sessions) and does not
\* hand the message to the transport a second time.
C25_FailedSendDrops ==
  /\ \A msg \in MsgTypes, su \in BOOLEAN :
       LET r == safe_send(Sess, msg, su, FALSE)
       IN r.handed # <<>> =>
            /\ r.closed
            /\ ~r.pending
            /\ r.drops >= 1
            /\ Len(r.handed) = 1
  /\ (slast.op = "send" /\ slast.discs = <<>> /\ slast.drops > 0) =>
       /\ slast.handed = <<slast.msg>>
       /\ slast.drops = 1
       /\ closed
       /\ ~pending

C25_Witness ==
  /\ slast.op = "send"
  /\ slast.was_verified
  /\ slast.handed = <<"Task">>
  /\ slast.drops = 1
  /\ closed
  /\ ~pending
  /\ ~disconnect_sent

\* C26: production_failed always tears the session down (connection closed,
\* session not in pending_sessions); data_sent closes and clears the
\* producer when one is set, never tears the session down, and changes
\* nothing when no producer is set.
C26_TransferHooks ==
  LET d == data_sent(Sess)
      f == production_failed(Sess)
  IN /\ f.closed
     /\ ~f.pending
     /\ f.drops = 1
     /\ producer => d = [Sess EXCEPT !.producer = FALSE, !.pclosed = 1]
     /\ ~producer => d = Sess
     /\ d.closed = closed
     /\ d.pending = pending
     /\ d.drops = 0
     /\ slast.op = "production_failed" => (closed /\ ~pending)
     /\ slast.op = "data_sent" => (~producer /\ slast.drops = 0)

C26_Witness ==
  /\ slast.op = "data_sent"
  /\ slast.pclosed = 1
  /\ ~producer
  /\ pending
  /\ ~closed

\* The subtask-keyed operations of C27; computation_finished with the
\* outcome of the verificator fixed, its files being those of FilesOf.
KeyedOps == {"finished_verified", "finished_not_verified",
             "computation_failed", "result_incoming", "restart_subtask"}

FilesOf == <<S_B_OUT>>

Apply(op, t, sid) ==
  CASE op = "finished_verified" ->
         computation_finished(t, sid, FilesOf, "files",
                              [i \in 1..Len(FilesOf) |-> TRUE], "VERIFIED").t
    [] op = "finished_not_verified" ->
         computation_finished(t, sid, FilesOf, "files",
                              [i \in 1..Len(FilesOf) |-> TRUE],
                              "NOT_VERIFIED").t
    [] op = "computation_failed" -> computation_failed(t, sid)
    [] op = "result_incoming" -> result_incoming(t, sid)
    [] op = "restart_subtask" -> restart_subtask(t, sid)

\* The equation is the same when (s1, op1) and (s2, op2) change places, so
\* each pair of ids is taken once, in the order of SubtaskIds.
KeyedOpsCommute ==
  \A i, j \in DOMAIN SubtaskIds :
    (i < j /\ {SubtaskIds[i], SubtaskIds[j]} \subseteq DOMAIN subtasks_given) =>
      LET s1 == SubtaskIds[i]
          s2 == SubtaskIds[j]
          first == [op \in KeyedOps |-> Apply(op, Task, s1)]
          second == [op \in KeyedOps |-> Apply(op, Task, s2)]
      IN \A op1, op2 \in KeyedOps :
           Counters(Apply(op2, first[op1], s2))
             = Counters(Apply(op1, second[op2], s1))

\* C27: in every state of every run, for two distinct known subtask ids s1
\* and s2 and any two subtask-keyed operations, op1(s1) then op2(s2) leaves
\* the statuses, num_failed_subtasks, num_tasks_received and the tracker as
\* op2(s2) then op1(s1) does, also when both subtasks are assigned to one
\* worker.
C27_KeyedOpsCommute == []KeyedOpsCommute

C27_Witness ==
  /\ last.op = "computation_failed"
  /\ \E s1, s2 \in DOMAIN subtasks_given :
       /\ s1 # s2
       /\ last.id = s2
       /\ subtasks_given[s1].node_id = subtasks_given[s2].node_id
       /\ subtasks_given[s1].status = "downloading"
       /\ subtasks_given[s2].status = "failure"

\* The last operation was a direct call of interpret_task_results.
Interpreted == last.op = "interpret_task_results"

IsErrLog(path) == endswith(path, ERR_LOG_EXT)
IsLog(path) == ~IsErrLog(path) /\ endswith(path, LOG_EXT)
IsResult(path) == ~IsErrLog(path) /\ ~endswith(path, LOG_EXT)

\* The last path of the list with the property, the empty text when none.
LastErrLog(list) ==
  IF \E i \in DOMAIN list : IsErrLog(list[i])
  THEN list[CHOOSE i \in DOMAIN list :
              /\ IsErrLog(list[i])
              /\ \A j \in DOMAIN list : j > i => ~IsErrLog(list[j])]
  ELSE <<>>

LastLog(list) ==
  IF \E i \in DOMAIN list : IsLog(list[i])
  THEN list[CHOOSE i \in DOMAIN list :
              /\ IsLog(list[i])
              /\ \A j \in DOMAIN list : j > i => ~IsLog(list[j])]
  ELSE <<>>

\* The result paths of the list among the indices of keep, relocated.
RECURSIVE RelocatedResults(_, _, _)
RelocatedResults(list, keep, i) ==
  IF i > Len(list) THEN <<>>
  ELSE (IF IsResult(list[i]) /\ i \in keep
        THEN <<outer_dir_path(list[i])>> ELSE <<>>)
       \o RelocatedResults(list, keep, i + 1)

\* C28: filter_task_results partitions the list: a path ending in err.log
\* goes to the stderr slot (never to stdout), any other path ending in .log
\* to the stdout slot, and exactly the remaining paths, relocated, form the
\* result set; on [a.log, a.err.log, b.out] the result set is [b.out],
\* stdout is a.log and stderr is a.err.log.  (No relocation is made to fail.)
C28_FilterPartitions ==
  (Interpreted /\ in_type = "files" /\ \A i \in DOMAIN in_ok : in_ok[i]) =>
    /\ stderr[last.id] = LastErrLog(in_results)
    /\ stdout[last.id] = LastLog(in_results)
    /\ results[last.id]
         = sort(RelocatedResults(in_results, DOMAIN in_results, 1))
    /\ in_results = <<A_LOG, A_ERR_LOG, B_OUT>> =>
         /\ results[last.id] = <<B_OUT>>
         /\ stdout[last.id] = A_LOG
         /\ stderr[last.id] = A_ERR_LOG

\* C29: interpreting results with a result_type that is neither files nor
\* data leaves the result set of the subtask empty and the diagnostic text
\* in its stderr slot (stdout is empty), whatever the list handed in.
C29_UnsupportedType ==
  (Interpreted /\ in_type \notin {"files", "data"}) =>
    /\ results[last.id] = <<>>
    /\ stderr[last.id] = NOT_SUPPORTED
    /\ stdout[last.id] = <<>>

C29_Witness ==
  /\ Interpreted
  /\ in_type = "other"
  /\ in_results = <<A_LOG, A_ERR_LOG, S_B_OUT>>
  /\ results[last.id] = <<>>
  /\ stderr[last.id] = NOT_SUPPORTED

\* The indices of the list whose relocation goes through: no I/O error, and
\* the target is not the file itself.
Relocatable ==
  {i \in DOMAIN in_results :
     in_ok[i] /\ outer_dir_path(in_results[i]) # in_results[i]}

\* C30: when relocating a result file fails with an I/O error, exactly that
\* file is missing from the result set and every other file of the list is
\* processed as if the failure had not happened: the result set is made of
\* the files whose relocation goes through, the two slots are as without
\* the failure.
C30_FailedRelocationDropsOneFile ==
  (Interpreted /\ in_type = "files") =>
    /\ results[last.id] = sort(RelocatedResults(in_results, Relocatable, 1))
    /\ stderr[last.id] = LastErrLog(in_results)
    /\ stdout[last.id] = LastLog(in_results)

C30_Witness ==
  /\ Interpreted
  /\ in_type = "files"
  /\ in_results = <<S_B_OUT, S_A_OUT, A_LOG>>
  /\ in_ok = <<FALSE, TRUE, TRUE>>
  /\ results[last.id] = <<<<"t", "/", "a", ".", "o", "u", "t">>>>
  /\ stdout[last.id] = A_LOG

\* C31: interpret applies the inbound checks in a fixed order and calls
\* disconnect once, with the reason of the first check that fails: not a
\* Message gives BadProtocol, then an unverified session with a type that is
\* not in can_be_unverified gives Unverified, then an unencrypted message of
\* a type not in can_be_not_encrypted gives BadProtocol; no handler runs in
\* any of the three cases.
C31_CheckOrder ==
  slast.op = "interpret" =>
    LET not_message == slast.msg = NotAMessage
        unverified == /\ ~slast.was_verified
                      /\ slast.msg \notin can_be_unverified
        plain == ~slast.encrypted /\ slast.msg \notin can_be_not_encrypted
        first == IF not_message THEN "BadProtocol"
                 ELSE IF unverified THEN "Unverified"
                 ELSE "BadProtocol"
    IN (not_message \/ unverified \/ plain) =>
         /\ slast.discs = <<first>>
         /\ slast.dispatched = None

C31_Witness ==
  /\ slast.op = "interpret"
  /\ slast.msg = "Task"
  /\ ~slast.encrypted
  /\ ~slast.was_verified
  /\ "Task" \notin can_be_unverified \cup can_be_not_encrypted
  /\ slast.discs = <<"Unverified">>
  /\ slast.dispatched = None

\* C32: once dropped() has run the session is never put back into
\* pending_sessions, and a later interpret or send neither runs a handler
\* nor hands a message to the transport.
C32_ClosedIsTerminal ==
  [][closed =>
       /\ ~pending'
       /\ slast'.op \in {"interpret", "send"} =>
            /\ slast'.dispatched = None
            /\ slast'.handed = <<>>]_vars

\* The subtasks handed to a worker.
SubtasksOf(w) ==
  {sid \in DOMAIN subtasks_given : subtasks_given[sid].node_id = w}

\* Every call of _accept_client accepted for the worker handed it a subtask,
\* every one of these went through result_incoming once and was verified.
AllWorkConfirmed(w) ==
  /\ SubtasksOf(w) # {}
  /\ \A sid \in SubtasksOf(w) :
       /\ subtasks_given[sid].status = "finished"
       /\ sid \in verified_ids
  /\ counting_nodes[w].started = Cardinality(SubtasksOf(w))
  /\ counting_nodes[w].finishing = Cardinality(SubtasksOf(w))

\* C33: a worker that was never rejected and whose subtasks have all gone
\* through result_incoming and a VERIFIED computation_finished holds no
\* pending-result slot: _accept_client for it returns ACCEPTED.
C33_SuccessReleasesSlot ==
  \A w \in DOMAIN counting_nodes :
    (counting_nodes[w].rejected = 0 /\ AllWorkConfirmed(w)) =>
      accept_client(counting_nodes, w).verdict = "ACCEPTED"

\* The step raises the reject count of worker w.
RejectRises(w) == counting_nodes'[w].rejected > counting_nodes[w].rejected

\* The subtask of the step is one handed to worker w.
OwnSubtask(w) ==
  /\ last'.id \in DOMAIN subtasks_given
  /\ subtasks_given[last'.id].node_id = w

\* The step reports a failure of a subtask of w: computation_failed, or
\* computation_finished with a verification that did not succeed.
FailureReported(w) ==
  /\ OwnSubtask(w)
  /\ \/ last'.op = "computation_failed"
     \/ /\ last'.op = "computation_finished"
        /\ last'.verify
        /\ last'.verdict # "VERIFIED"

\* The subtasks of w that restart_subtask marks failed.
Penalized(w) ==
  {sid \in SubtasksOf(w) :
     subtasks_given[sid].status \in {"starting", "downloading", "finished"}}

\* C34 as stated: the reject count of a worker rises only in a step that
\* reports a failure of one of its subtasks (failed verification or
\* computation_failed); restart_subtask and restart leave the reject count,
\* hence the verdict, of every worker as it was.
C34_Original ==
  [][\A w \in DOMAIN counting_nodes :
       /\ RejectRises(w) => FailureReported(w)
       /\ last'.op \in {"restart_subtask", "restart"} =>
            counting_nodes'[w] = counting_nodes[w]]_vars

\* C34 amended: the reject count of a worker rises only in a step that
\* reports a failure of one of its subtasks or restarts one of its subtasks
\* that is starting, downloading or finished; restart_subtask and restart
\* raise it exactly then, a finished and verified subtask included, and the
\* worker is REJECTED from then on; the restart of a subtask in failure,
\* resent or restarted leaves the worker's record as it was.
C34_Amended ==
  [][\A w \in DOMAIN counting_nodes :
       /\ RejectRises(w) =>
            /\ \/ FailureReported(w)
               \/ last'.op = "restart_subtask" /\ last'.id \in Penalized(w)
               \/ last'.op = "restart" /\ Penalized(w) # {}
            /\ accept_client(counting_nodes', w).verdict = "REJECTED"
       /\ last'.op = "restart_subtask" =>
            IF last'.id \in Penalized(w) THEN RejectRises(w)
            ELSE counting_nodes'[w] = counting_nodes[w]
       /\ last'.op = "restart" =>
            IF Penalized(w) # {} THEN RejectRises(w)
            ELSE counting_nodes'[w] = counting_nodes[w]]_vars

C34_Witness ==
  /\ last.op = "restart_subtask"
  /\ last.id \in verified_ids
  /\ subtasks_given[last.id].status = "restarted"
  /\ counting_nodes[subtasks_given[last.id].node_id]
       = [started |-> 1, finishing |-> 0, rejected |-> 1]
  /\ num_failed_subtasks = 1

\* C35: computation_failed on a subtask that is finished leaves its status
\* finished and leaves num_failed_subtasks and the reject count of its
\* worker unchanged; only restart_subtask (alone or within restart) takes a
\* subtask out of finished.
C35_LateFailureIgnored ==
  [][\A sid \in DOMAIN subtasks_given :
       subtasks_given[sid].status = "finished" =>
         /\ (last'.op = "computation_failed" /\ last'.id = sid) =>
              /\ subtasks_given'[sid].status = "finished"
              /\ num_failed_subtasks' = num_failed_subtasks
              /\ counting_nodes'[subtasks_given[sid].node_id].rejected
                   = counting_nodes[subtasks_given[sid].node_id].rejected
         /\ subtasks_given'[sid].status # "finished" =>
              last'.op \in {"restart_subtask", "restart"}]_vars

\* C36: unverified_cnt never drops below zero: a refused send made when the
\* budget is already exhausted neither decrements the counter nor calls
\* disconnect again.
C36_BudgetFloor ==
  /\ unverified_cnt >= 0
  /\ (RefusedSend /\ slast.cnt_before <= 0) =>
       /\ unverified_cnt = slast.cnt_before
       /\ slast.discs = <<>>

VerifyStep == current_step_name(Play) = "step_verify_peer_connection"

\* The step goes from step_verify_peer_connection back to
\* step_connect_nodes: the countdown has run out and an attempt is used up.
GoesBack ==
  /\ VerifyStep
  /\ current_step_name([Play EXCEPT !.current_step = current_step'])
       = "step_connect_nodes"
  /\ reconnect_countdown # <<>>
  /\ reconnect_countdown[1] <= 0
  /\ reconnect_attempts_left > 0
  /\ reconnect_attempts_left' = reconnect_attempts_left - 1

\* The step is a run of step_verify_peer_connection that calls fail.
VerifyFails ==
  /\ VerifyStep
  /\ started
  /\ ~started'
  /\ ~plast'.exited

\* C37: with a requestor that keeps reporting no connected peer the
\* playbook goes back from step_verify_peer_connection to step_connect_nodes
\* only when the countdown set by step_connect_nodes has run out, each time
\* using up one of the reconnect_attempts_left (7) attempts, which never
\* drop below zero; step_verify_peer_connection calls fail only when none
\* is left; current_step never becomes negative; and once the playbook is at
\* step_verify_peer_connection it stops with exit code 1.
C37_ReconnectBounded ==
  /\ [][/\ current_step' >= 0
        /\ reconnect_attempts_left' \in 0..reconnect_attempts_initial
        /\ reconnect_attempts_left' # reconnect_attempts_left => GoesBack
        /\ current_step' < current_step => GoesBack
        /\ (current_step_name(Play) = "step_connect_nodes"
              /\ current_step' > current_step)
             => reconnect_countdown' = <<reconnect_countdown_initial>>
        /\ VerifyFails =>
             /\ reconnect_attempts_left = 0
             /\ reconnect_countdown[1] <= 0
             /\ exit_code' = <<1>>]_vars
  /\ (started /\ VerifyStep) ~> (~started /\ exit_code = <<1>>)

C37_Witness ==
  /\ plast.op = "run"
  /\ plast.step = 7
  /\ ~plast.exited
  /\ current_step = 7
  /\ reconnect_attempts_left = 0
  /\ reconnect_countdown = <<0>>
  /\ ~started
  /\ ~nodes_started
  /\ exit_code = <<1>>

====
